---- MODULE Spec2Model ----
(***************************************************************************)
(* BioMonteCarlo: the layered mesh (mesh.py), the photon (photon.py) and   *)
(* the Monte-Carlo driver (simulation.py) as one state machine.            *)
(*                                                                         *)
(* Python floats are modelled as exact rationals <<num, den>> (den > 0,    *)
(* in lowest terms); 3-vectors (numpy arrays) as triples of rationals.     *)
(* A call that raises leaves the exception's name in ret.exc.              *)
(***************************************************************************)
EXTENDS Integers, Sequences, FiniteSets, TLC

VARIABLES
    layer_boundaries,          \* LayeredMesh._layer_boundaries
    layer_properties,          \* LayeredMesh._layer_properties
    num_photons,               \* MonteCarloSimulator.num_photons
    initial_photon_direction,  \* MonteCarloSimulator.initial_photon_direction
    photon_paths,              \* MonteCarloSimulator.photon_paths
    absorption_profile,        \* MonteCarloSimulator.absorption_profile
    photon,                    \* the local `photon` of run()
    trial,                     \* number of iterations of run()'s for loop begun
    pc,                        \* where the program is
    ret                        \* the last call: its name, arguments and outcome

vars == <<layer_boundaries, layer_properties, num_photons,
          initial_photon_direction, photon_paths, absorption_profile,
          photon, trial, pc, ret>>

meshVars == <<layer_boundaries, layer_properties>>

simVars == <<num_photons, initial_photon_direction, photon_paths,
             absorption_profile, photon, trial>>

-----------------------------------------------------------------------------
(* Bounds of the model.                                                    *)

\* add_layer is called while the mesh holds fewer than MaxLayers boundaries
MaxLayers == 3

\* boundaries passed to add_layer are the integers 0..MaxBoundary
MaxBoundary == 3

\* num_photons passed to the simulator is in 0..MaxPhotons
MaxPhotons == 2

-----------------------------------------------------------------------------
(* Float arithmetic, as exact rationals.                                   *)

Abs(i) == IF i < 0 THEN -i ELSE i

RECURSIVE GCD(_, _)
GCD(a, b) == IF b = 0 THEN a ELSE GCD(b, a % b)

\* the rational n/d in lowest terms with a positive denominator (d # 0)
Rat(n, d) ==
    LET g == GCD(Abs(n), Abs(d))
        s == IF d < 0 THEN -1 ELSE 1
    IN  <<(s * n) \div g, (s * d) \div g>>

Float(i) == <<i, 1>>

\* The four operations take the value x of a and y of b once each and
\* build the result from those values.
RAdd(a, b) ==
    CHOOSE r \in {Rat(x[1] * y[2] + y[1] * x[2], x[2] * y[2]) : x \in {a}, y \in {b}} : TRUE

RSub(a, b) ==
    CHOOSE r \in {Rat(x[1] * y[2] - y[1] * x[2], x[2] * y[2]) : x \in {a}, y \in {b}} : TRUE

RMul(a, b) ==
    CHOOSE r \in {Rat(x[1] * y[1], x[2] * y[2]) : x \in {a}, y \in {b}} : TRUE

\* b # 0
RDiv(a, b) ==
    CHOOSE r \in {Rat(x[1] * y[2], x[2] * y[1]) : x \in {a}, y \in {b}} : TRUE

RLt(a, b) == a[1] * b[2] < b[1] * a[2]

RLe(a, b) == a[1] * b[2] <= b[1] * a[2]

RZero == Float(0)

ROne == Float(1)

\* numpy: array + array, array * scalar
VecAdd(u, v) == <<RAdd(u[1], v[1]), RAdd(u[2], v[2]), RAdd(u[3], v[3])>>

VecScale(u, s) == <<RMul(u[1], s), RMul(u[2], s), RMul(u[3], s)>>

Vec(x, y, z) == <<Float(x), Float(y), Float(z)>>

-----------------------------------------------------------------------------
(* Python sequences: 0-based, a negative index counts from the end.        *)

PyInRange(s, i) == -Len(s) <= i /\ i < Len(s)

\* the 1-based place of Python index i
PyPos(s, i) == IF i < 0 THEN Len(s) + i + 1 ELSE i + 1

PyIndex(s, i) == s[PyPos(s, i)]

PyLast(s) == PyIndex(s, -1)

\* s[:-1]
PyAllButLast(s) == IF Len(s) = 0 THEN <<>> ELSE SubSeq(s, 1, Len(s) - 1)

-----------------------------------------------------------------------------
(* LayeredMesh                                                             *)

RequiredKeys == {"n", "mu_s", "mu_a", "g"}

None == [none |-> TRUE]

\* numpy.searchsorted(a, v, side='right') on a sorted a: the bisection
\* that returns the i with a[:i] <= v < a[i:]
RECURSIVE Bisect(_, _, _, _)
Bisect(a, v, lo, hi) ==
    IF lo >= hi THEN lo
    ELSE LET mid == lo + ((hi - lo) \div 2)
         IN  IF RLe(PyIndex(a, mid), v)
             THEN Bisect(a, v, mid + 1, hi)
             ELSE Bisect(a, v, lo, mid)

\* mutant: the bisection of side='left', which returns the i with a[:i] < v <= a[i:]
RECURSIVE BisectLeft(_, _, _, _)
BisectLeft(a, v, lo, hi) ==
    IF lo >= hi THEN lo
    ELSE LET mid == lo + ((hi - lo) \div 2)
         IN  IF RLt(PyIndex(a, mid), v)
             THEN BisectLeft(a, v, mid + 1, hi)
             ELSE BisectLeft(a, v, lo, mid)

SearchSortedLeft(a, v) == BisectLeft(a, v, 0, Len(a))

SearchSortedRight(a, v) == Bisect(a, v, 0, Len(a))

\* z < b[0] or z > b[-1]
OutsideMesh(b, z) == RLt(z, PyIndex(b, 0)) \/ RLt(PyLast(b), z)

\* get_layer_index on a mesh with at least one boundary
LayerIndexOf(b, z) ==
    IF OutsideMesh(b, z) THEN -1 ELSE SearchSortedRight(b, z) - 1

\* get_properties_at on a mesh with at least one boundary
PropertiesOf(b, p, z) ==
    LET layer_index == LayerIndexOf(b, z)
    IN  IF layer_index = -1 THEN None ELSE PyIndex(p, layer_index)

\* mutant: the boundary test with < for <=
AddLayerRejectsOnlyLess(b, boundary, properties) ==
    \/ (Len(b) > 0 /\ RLt(boundary, PyLast(b)))
    \/ ~(\A key \in RequiredKeys : key \in DOMAIN properties)

\* the two checks of add_layer, in the order the code makes them
AddLayerRejects(b, boundary, properties) ==
    \/ (Len(b) > 0 /\ RLe(boundary, PyLast(b)))
    \/ ~(\A key \in RequiredKeys : key \in DOMAIN properties)

\* mutant: the boundary is stored before the properties are checked
AddLayerStoresFirst(b, p, boundary, properties) ==
    IF Len(b) > 0 /\ RLe(boundary, PyLast(b))
    THEN <<b, p>>
    ELSE IF ~(\A key \in RequiredKeys : key \in DOMAIN properties)
         THEN <<Append(b, boundary), p>>
         ELSE <<Append(b, boundary), Append(p, properties)>>

\* the mesh <<boundaries, properties>> add_layer leaves behind
AddLayerResult(b, p, boundary, properties) ==
    IF AddLayerRejects(b, boundary, properties)
    THEN <<b, p>>
    ELSE <<Append(b, boundary), Append(p, properties)>>

-----------------------------------------------------------------------------
(* Photon                                                                  *)

\* the dataclass defaults of the fields position and direction
DefaultPosition == Vec(0, 0, 1)

DefaultDirection == Vec(0, 0, 1)

\* check_weight's default threshold, 0.001
DefaultThreshold == Rat(1, 1000)

\* Photon(position, direction): the generated __init__, then __post_init__
PhotonNew(position, direction) ==
    [position  |-> position,
     direction |-> direction,
     path      |-> <<position>>,
     weight    |-> ROne,
     alive     |-> TRUE]

\* Photon(): both fields defaulted
PhotonDefault == PhotonNew(DefaultPosition, DefaultDirection)

\* Photon(x): one positional argument binds the first field, position
PhotonPositional(x) == PhotonNew(x, DefaultDirection)

Move(ph, step_size) ==
    [ph EXCEPT !.path = Append(@, VecAdd(PyLast(ph.path),
                                         VecScale(ph.direction, step_size)))]

\* scatter replaces the direction by the sampled unit vector d
Scatter(ph, d) == [ph EXCEPT !.direction = d]

\* absorb, with e the value of exp(-mu_a * step_size)
Absorb(ph, e) ==
    LET absorbed == RMul(ph.weight, RSub(ROne, e))
    IN  [ph EXCEPT !.weight = RSub(@, absorbed)]

\* mutant: the threshold is ignored, only a negative weight ends the photon
CheckWeightBelowZero(ph, threshold) ==
    IF RLt(ph.weight, RZero) THEN [ph EXCEPT !.alive = FALSE] ELSE ph

CheckWeight(ph, threshold) ==
    IF RLt(ph.weight, threshold) THEN [ph EXCEPT !.alive = FALSE] ELSE ph

-----------------------------------------------------------------------------
(* MonteCarloSimulator                                                     *)

\* numpy.zeros_like(mesh._layer_boundaries[:-1])
ZerosLikeAllButLast(b) == [i \in 1..Len(PyAllButLast(b)) |-> RZero]

\* the photon a trial of run() starts with
TrialPhoton(d) == PhotonPositional(d)

\* current_position[2]
Depth(ph) == PyLast(ph.path)[3]

\* mutant: only the first boundary is tested
EscapedBelowOnly(b, z) == RLt(z, PyIndex(b, 0))

\* the escape test at the head of the while body
Escaped(b, z) == RLt(z, PyIndex(b, 0)) \/ RLt(PyLast(b), z)

\* step_size = -log(rand()) / mu_s, with draw the value of -log(rand())
StepSize(draw, layer_props) == RDiv(draw, layer_props.mu_s)

\* what absorption_profile[layer_index] += ... adds
Deposit(ph, layer_props, step_size) ==
    RMul(RMul(ph.weight, layer_props.mu_a), step_size)

\* photon.weight *= (1 - mu_a * step_size)
Rescale(ph, layer_props, step_size) ==
    [ph EXCEPT !.weight =
        RMul(@, RSub(ROne, RMul(layer_props.mu_a, step_size)))]

\* mutant: only the final position is stored
AppendFinalPosition(paths, ph) == Append(paths, <<PyLast(ph.path)>>)

\* self.photon_paths.append(photon.path)
AppendPath(paths, ph) == Append(paths, ph.path)

\* One pass through the body of `while photon.alive`, on a mesh with at
\* least one boundary: the photon and the profile it leaves, and the
\* exception it raises ("none" when it completes).
WhileBody(ph, profile, b, p, draw) ==
    LET z == Depth(ph)
    IN  IF Escaped(b, z)
        THEN [photon |-> [ph EXCEPT !.alive = FALSE], profile |-> profile,
              exc |-> "none", stepped |-> FALSE]
        ELSE
        LET layer_index == LayerIndexOf(b, z)
            layer_props == PyIndex(p, layer_index)
            step_size   == StepSize(draw, layer_props)
            moved       == CheckWeight(Move(ph, step_size), DefaultThreshold)
        IN  IF ~PyInRange(profile, layer_index)
            THEN [photon |-> moved, profile |-> profile,
                  exc |-> "IndexError", stepped |-> TRUE]
            ELSE [photon  |-> Rescale(moved, layer_props, step_size),
                  profile |-> [profile EXCEPT ![PyPos(profile, layer_index)] =
                                  RAdd(@, Deposit(moved, layer_props, step_size))],
                  exc |-> "none", stepped |-> TRUE]

-----------------------------------------------------------------------------
(* The inputs the environment chooses from.                                *)

Boundaries == {Float(i) : i \in 0..MaxBoundary}

PropsA == [n |-> Float(1), mu_s |-> Float(1), mu_a |-> Rat(1, 2), g |-> Rat(9, 10)]

PropsB == [n |-> Rat(7, 5), mu_s |-> Float(2), mu_a |-> Float(2), g |-> Rat(4, 5)]

\* no 'mu_s', as in test_invalid_layer_properties
PropsNoMuS == [n |-> Float(1), mu_a |-> Rat(1, 10), g |-> Rat(9, 10)]

PropertyRecords == {PropsA, PropsB, PropsNoMuS}

\* depths asked of the mesh: the halves from -1/2 to MaxBoundary + 1/2
QueryDepths == {Rat(i, 2) : i \in -1..(2 * MaxBoundary + 1)}

\* values of initial_photon_direction
Directions == {Vec(0, 0, 1), Vec(1, 0, 0), Vec(0, 0, -1)}

\* values of -log(rand())
LogDraws == {Float(1), Float(2)}

\* values of exp(-mu_a * step_size) in Photon.absorb
ExpValues == {Rat(1, 2048)}

-----------------------------------------------------------------------------
(* The state machine.                                                      *)

NoPhoton == [none |-> TRUE]

Init ==
    /\ layer_boundaries = <<>>
    /\ layer_properties = <<>>
    /\ num_photons = 0
    /\ initial_photon_direction = DefaultDirection
    /\ photon_paths = <<>>
    /\ absorption_profile = <<>>
    /\ photon = NoPhoton
    /\ trial = 0
    /\ pc = "setup"
    /\ ret = [op |-> "LayeredMesh", exc |-> "none"]

\* mesh.add_layer(boundary, **properties)
AddLayer(boundary, properties) ==
    /\ pc = "setup"
    /\ Len(layer_boundaries) < MaxLayers
    /\ LET after == AddLayerResult(layer_boundaries, layer_properties,
                                   boundary, properties)
       IN  /\ layer_boundaries' = after[1]
           /\ layer_properties' = after[2]
    /\ ret' = [op |-> "add_layer", boundary |-> boundary,
               properties |-> properties,
               exc |-> IF AddLayerRejects(layer_boundaries, boundary, properties)
                       THEN "ValueError" ELSE "none"]
    /\ UNCHANGED <<simVars, pc>>

\* mesh.get_layer_index(z); an empty mesh has no _layer_boundaries[0]
GetLayerIndex(z) ==
    /\ pc = "setup"
    /\ ret' = IF Len(layer_boundaries) = 0
              THEN [op |-> "get_layer_index", z |-> z, exc |-> "IndexError"]
              ELSE [op |-> "get_layer_index", z |-> z, exc |-> "none",
                    value |-> LayerIndexOf(layer_boundaries, z)]
    /\ UNCHANGED <<meshVars, simVars, pc>>

\* mesh.get_properties_at(z)
GetPropertiesAt(z) ==
    /\ pc = "setup"
    /\ ret' = IF Len(layer_boundaries) = 0
              THEN [op |-> "get_properties_at", z |-> z, exc |-> "IndexError"]
              ELSE [op |-> "get_properties_at", z |-> z, exc |-> "none",
                    value |-> PropertiesOf(layer_boundaries, layer_properties, z)]
    /\ UNCHANGED <<meshVars, simVars, pc>>

\* Photon(), outside any simulator
NewPhoton ==
    /\ pc = "setup"
    /\ ret' = [op |-> "Photon", exc |-> "none", photon |-> PhotonDefault]
    /\ UNCHANGED <<meshVars, simVars, pc>>

HoldsPhoton == "photon" \in DOMAIN ret

\* p.move(step_size) on that photon; it has moved at most once before
PhotonMove(step_size) ==
    /\ pc = "setup"
    /\ HoldsPhoton
    /\ Len(ret.photon.path) <= 1
    /\ ret' = [op |-> "move", exc |-> "none", photon |-> Move(ret.photon, step_size)]
    /\ UNCHANGED <<meshVars, simVars, pc>>

\* p.scatter(g): the sampled direction is some unit vector d
PhotonScatter(d) ==
    /\ pc = "setup"
    /\ HoldsPhoton
    /\ ret' = [op |-> "scatter", exc |-> "none", photon |-> Scatter(ret.photon, d)]
    /\ UNCHANGED <<meshVars, simVars, pc>>

\* p.absorb(mu_a, step_size); it has absorbed at most once before
PhotonAbsorb(e) ==
    /\ pc = "setup"
    /\ HoldsPhoton
    /\ ret.photon.weight = ROne
    /\ ret' = [op |-> "absorb", exc |-> "none", photon |-> Absorb(ret.photon, e)]
    /\ UNCHANGED <<meshVars, simVars, pc>>

\* p.check_weight()
PhotonCheckWeight ==
    /\ pc = "setup"
    /\ HoldsPhoton
    /\ ret' = [op |-> "check_weight", exc |-> "none",
               photon |-> CheckWeight(ret.photon, DefaultThreshold)]
    /\ UNCHANGED <<meshVars, simVars, pc>>

\* MonteCarloSimulator(mesh, n, d)
NewSimulator(n, d) ==
    /\ pc = "setup"
    /\ num_photons' = n
    /\ initial_photon_direction' = d
    /\ photon_paths' = <<>>
    /\ absorption_profile' = ZerosLikeAllButLast(layer_boundaries)
    /\ pc' = "ready"
    /\ ret' = [op |-> "MonteCarloSimulator", exc |-> "none"]
    /\ UNCHANGED <<meshVars, photon, trial>>

\* simulator.run() is called, once, on the simulator just constructed
Run ==
    /\ pc = "ready"
    /\ trial' = 0
    /\ pc' = "for"
    /\ ret' = [op |-> "run", exc |-> "running"]
    /\ UNCHANGED <<meshVars, num_photons, initial_photon_direction,
                   photon_paths, absorption_profile, photon>>

\* for _ in range(num_photons): photon = Photon(initial_photon_direction)
BeginTrial ==
    /\ pc = "for"
    /\ trial < num_photons
    /\ trial' = trial + 1
    /\ photon' = TrialPhoton(initial_photon_direction)
    /\ pc' = "while"
    /\ UNCHANGED <<meshVars, num_photons, initial_photon_direction,
                   photon_paths, absorption_profile, ret>>

\* one pass through the while body; on an empty mesh _layer_boundaries[0] raises
Iterate(draw) ==
    /\ pc = "while"
    /\ photon.alive
    /\ IF Len(layer_boundaries) = 0
       THEN /\ pc' = "raised"
            /\ ret' = [op |-> "run", exc |-> "IndexError"]
            /\ UNCHANGED <<photon, absorption_profile>>
       ELSE LET r == WhileBody(photon, absorption_profile, layer_boundaries,
                               layer_properties, draw)
            IN  /\ photon' = r.photon
                /\ absorption_profile' = r.profile
                /\ pc' = IF r.exc = "none" THEN "while" ELSE "raised"
                /\ ret' = IF r.exc = "none" THEN ret
                          ELSE [op |-> "run", exc |-> r.exc]
    /\ UNCHANGED <<meshVars, num_photons, initial_photon_direction,
                   photon_paths, trial>>

\* the while loop ends: self.photon_paths.append(photon.path)
EndTrial ==
    /\ pc = "while"
    /\ ~photon.alive
    /\ photon_paths' = AppendPath(photon_paths, photon)
    /\ pc' = "for"
    /\ UNCHANGED <<meshVars, num_photons, initial_photon_direction,
                   absorption_profile, photon, trial, ret>>

\* the for loop is exhausted: run() returns
Return ==
    /\ pc = "for"
    /\ trial >= num_photons
    /\ pc' = "done"
    /\ ret' = [op |-> "run", exc |-> "none"]
    /\ UNCHANGED <<meshVars, simVars>>

Next ==
    \/ \E boundary \in Boundaries, properties \in PropertyRecords :
          AddLayer(boundary, properties)
    \/ \E z \in QueryDepths : GetLayerIndex(z)
    \/ \E z \in QueryDepths : GetPropertiesAt(z)
    \/ NewPhoton
    \/ \E s \in LogDraws : PhotonMove(s)
    \/ \E d \in Directions : PhotonScatter(d)
    \/ \E e \in ExpValues : PhotonAbsorb(e)
    \/ PhotonCheckWeight
    \/ \E n \in 0..MaxPhotons, d \in Directions : NewSimulator(n, d)
    \/ Run
    \/ BeginTrial
    \/ \E draw \in LogDraws : Iterate(draw)
    \/ EndTrial
    \/ Return

Spec == Init /\ [][Next]_vars

\* a step of run() itself
RunStep == BeginTrial \/ (\E draw \in LogDraws : Iterate(draw)) \/ EndTrial \/ Return

-----------------------------------------------------------------------------
(* run() alone, from every simulator the operations above can construct.   *)

\* the meshes k calls of add_layer can build from the empty mesh
RECURSIVE MeshesAfter(_)
MeshesAfter(k) ==
    IF k = 0 THEN {<<<<>>, <<>>>>}
    ELSE LET before == MeshesAfter(k - 1)
         IN  before \cup
             {AddLayerResult(m[1], m[2], boundary, properties) :
                 m \in {x \in before : Len(x[1]) < MaxLayers},
                 boundary \in Boundaries, properties \in PropertyRecords}

BuiltMeshes == MeshesAfter(MaxLayers)

\* the state MonteCarloSimulator(mesh, n, d) leaves, for every such mesh
RunInit ==
    /\ \E m \in BuiltMeshes :
          /\ layer_boundaries = m[1]
          /\ layer_properties = m[2]
          /\ absorption_profile = ZerosLikeAllButLast(m[1])
    /\ num_photons \in 0..MaxPhotons
    /\ initial_photon_direction \in Directions
    /\ photon_paths = <<>>
    /\ photon = NoPhoton
    /\ trial = 0
    /\ pc = "ready"
    /\ ret = [op |-> "MonteCarloSimulator", exc |-> "none"]

RunNext ==
    \/ Run
    \/ BeginTrial
    \/ \E draw \in LogDraws : Iterate(draw)
    \/ EndTrial
    \/ Return

\* run() is one sequential loop on one thread: once called, it takes its
\* next step whenever it has one
FairSpec == RunInit /\ [][RunNext]_vars /\ WF_vars(RunStep)

-----------------------------------------------------------------------------
(* Properties of the mesh.                                                 *)

StrictlyIncreasing(b) ==
    \A i \in 1..(Len(b) - 1) : RLt(b[i], b[i + 1])

\* the greatest 0-based index i with b[i] <= z, for b[0] <= z
GreatestNotAbove(b, z) ==
    CHOOSE i \in 0..(Len(b) - 1) :
        /\ RLe(b[i + 1], z)
        /\ \A j \in 0..(Len(b) - 1) : RLe(b[j + 1], z) => j <= i

InsideMesh(b, z) == RLe(b[1], z) /\ RLe(z, b[Len(b)])

\* C1: on a mesh with strictly increasing boundaries, get_layer_index(z)
\* returns the greatest i with b[i] <= z when b[0] <= z <= b[n-1] (so that
\* i = n-1 or z < b[i+1]) and -1 otherwise; get_properties_at(z) returns
\* props[i] for that i, and None outside the mesh.
C1_LayerLookup ==
    (/\ ret.op \in {"get_layer_index", "get_properties_at"}
     /\ ret.exc = "none"
     /\ StrictlyIncreasing(layer_boundaries))
    => LET b == layer_boundaries
           n == Len(b)
           z == ret.z
           i == GreatestNotAbove(b, z)
       IN  IF InsideMesh(b, z)
           THEN /\ RLe(b[i + 1], z)
                /\ (i = n - 1 \/ RLt(z, b[i + 2]))
                /\ ret.op = "get_layer_index" => ret.value = i
                /\ ret.op = "get_properties_at" =>
                      ret.value = layer_properties[i + 1]
           ELSE /\ ret.op = "get_layer_index" => ret.value = -1
                /\ ret.op = "get_properties_at" => ret.value = None

\* a depth equal to an interior boundary was looked up, and the record of
\* the layer beginning there came back
C1_Witness ==
    /\ Len(layer_boundaries) = 3
    /\ ret.op = "get_properties_at"
    /\ ret.exc = "none"
    /\ ret.z = layer_boundaries[2]
    /\ ret.value = layer_properties[2]
    /\ layer_properties[2] # layer_properties[1]

\* the claim's condition for add_layer to fail
MustReject(b, boundary, properties) ==
    \/ (Len(b) > 0 /\ RLe(boundary, b[Len(b)]))
    \/ \E key \in RequiredKeys : key \notin DOMAIN properties

\* C2: add_layer raises ValueError whenever the mesh is non-empty and the
\* boundary is <= the last boundary, and whenever a required key is
\* missing; a call that raises leaves boundaries and records as they were.
C2_RejectNoMutation ==
    [][ret'.op = "add_layer" =>
         /\ MustReject(layer_boundaries, ret'.boundary, ret'.properties)
               => ret'.exc = "ValueError"
         /\ ret'.exc = "ValueError" =>
               /\ layer_boundaries' = layer_boundaries
               /\ layer_properties' = layer_properties]_vars

\* a call with a boundary beyond the last one was rejected for its missing key
C2_Witness ==
    /\ ret.op = "add_layer"
    /\ ret.exc = "ValueError"
    /\ Len(layer_boundaries) > 0
    /\ RLt(layer_boundaries[Len(layer_boundaries)], ret.boundary)
    /\ "mu_s" \notin DOMAIN ret.properties

\* C3: the boundaries are strictly increasing and paired index for index
\* with the records; an accepted add_layer appends its boundary and its
\* record and leaves the earlier entries alone; nothing else changes them.
C3_PairedIncreasing ==
    /\ [](/\ StrictlyIncreasing(layer_boundaries)
          /\ Len(layer_properties) = Len(layer_boundaries))
    /\ [][IF ret'.op = "add_layer" /\ ret'.exc = "none"
          THEN /\ layer_boundaries' = Append(layer_boundaries, ret'.boundary)
               /\ layer_properties' = Append(layer_properties, ret'.properties)
          ELSE /\ layer_boundaries' = layer_boundaries
               /\ layer_properties' = layer_properties]_vars

\* a third layer was accepted
C3_Witness ==
    /\ Len(layer_boundaries) = 3
    /\ ret.op = "add_layer"
    /\ ret.exc = "none"
    /\ layer_boundaries[3] = ret.boundary
    /\ layer_properties[3] = ret.properties
    /\ layer_properties[1] # layer_properties[2]

-----------------------------------------------------------------------------
(* Properties of a run.                                                    *)

\* every layer has mu_s > 0 and mu_a >= 0
ValidOptics ==
    \A i \in 1..Len(layer_properties) :
        /\ RLt(RZero, layer_properties[i].mu_s)
        /\ RLe(RZero, layer_properties[i].mu_a)

HasPhoton == photon # NoPhoton

\* a step that is one pass through the while body
IterateStep == \E draw \in LogDraws : Iterate(draw)

\* C4: with mu_s > 0 and mu_a >= 0 in every layer, a photon's weight starts
\* at 1, is never greater after a pass through the while body than before
\* it, and is within [0, 1] in every state of the run.
C4_WeightInUnitInterval ==
    /\ []((HasPhoton /\ ValidOptics) =>
             /\ RLe(RZero, photon.weight)
             /\ RLe(photon.weight, ROne))
    /\ [][BeginTrial => photon'.weight = ROne]_vars
    /\ [][(IterateStep /\ ValidOptics) =>
             RLe(photon'.weight, photon.weight)]_vars

\* C5: with mu_s > 0 and mu_a >= 0 in every layer, every entry of
\* absorption_profile is >= 0 during and after run(), and no pass through
\* the while body makes an entry smaller.
C5_ProfileNonNegative ==
    /\ [](ValidOptics =>
             \A i \in 1..Len(absorption_profile) :
                 RLe(RZero, absorption_profile[i]))
    /\ [][(IterateStep /\ ValidOptics) =>
             \A i \in 1..Len(absorption_profile) :
                 RLe(absorption_profile[i], absorption_profile'[i])]_vars

\* C6: every photon of run() has the simulator's initial_photon_direction
\* as its direction throughout, each position appended to its path is the
\* previous one plus initial_photon_direction times the step length, and
\* its starting position is the same for every initial_photon_direction.
C6_TravelsInConfiguredDirection ==
    /\ [](HasPhoton =>
             /\ photon.direction = initial_photon_direction
             /\ photon.path[1] = PhotonDefault.position)
    /\ [][(IterateStep /\ Len(photon'.path) = Len(photon.path) + 1) =>
             \E draw \in LogDraws :
                 PyLast(photon'.path) =
                     VecAdd(PyLast(photon.path),
                            VecScale(initial_photon_direction,
                                     StepSize(draw,
                                              PropertiesOf(layer_boundaries,
                                                           layer_properties,
                                                           Depth(photon)))))]_vars

\* C7: a pass through the while body that begins with the weight below
\* 0.001 ends with alive false; and alive, once false, stays false for
\* that photon under every operation of the driver and of Photon.
C7_AliveOneWay ==
    /\ [][(IterateStep /\ RLt(photon.weight, DefaultThreshold)) =>
             ~photon'.alive]_vars
    /\ [][(HasPhoton /\ ~photon.alive /\ ~BeginTrial) =>
             ~photon'.alive]_vars
    /\ [][(HoldsPhoton /\ ~ret.photon.alive /\ "photon" \in DOMAIN ret'
           /\ ret'.op # "Photon") => ~ret'.photon.alive]_vars

\* inside the mesh, a photon with a weight in [0, 0.001) was ended by
\* check_weight
C7_Witness ==
    /\ pc = "while"
    /\ ~photon.alive
    /\ RLe(RZero, photon.weight)
    /\ RLt(photon.weight, DefaultThreshold)
    /\ Len(photon.path) >= 3
    /\ ~Escaped(layer_boundaries, photon.path[Len(photon.path) - 1][3])

\* C8: a pass through the while body that begins at a depth < b[0] or
\* > b[n-1] takes no step: path, weight and absorption_profile stay as
\* they are and alive becomes false; a path grows only from a depth
\* within [b[0], b[n-1]].
C8_EscapeTakesNoStep ==
    /\ [][(/\ IterateStep
           /\ Len(layer_boundaries) > 0
           /\ ~InsideMesh(layer_boundaries, Depth(photon))) =>
             /\ photon'.path = photon.path
             /\ photon'.weight = photon.weight
             /\ absorption_profile' = absorption_profile
             /\ ~photon'.alive
             /\ pc' = "while"]_vars
    /\ [][(HasPhoton /\ ~BeginTrial /\ photon'.path # photon.path) =>
             InsideMesh(layer_boundaries, Depth(photon))]_vars

\* a photon that started below the first boundary ended on its first pass
C8_Witness ==
    /\ pc = "while"
    /\ ~photon.alive
    /\ Len(photon.path) = 1
    /\ Len(layer_boundaries) > 0
    /\ RLt(Depth(photon), layer_boundaries[1])
    /\ photon.weight = ROne

\* C9: when run() on a newly constructed simulator returns, photon_paths holds
\* num_photons paths, each non-empty and beginning at its photon's start
\* position; each trial appends its photon's whole path when it ends, and
\* that path has one more element per step taken; with num_photons = 0 the
\* paths are empty and the profile is all zero.
C9_OnePathPerTrial ==
    /\ [](pc = "done" =>
             /\ Len(photon_paths) = num_photons
             /\ \A k \in 1..Len(photon_paths) :
                    /\ Len(photon_paths[k]) >= 1
                    /\ photon_paths[k][1] =
                           TrialPhoton(initial_photon_direction).position
             /\ num_photons = 0 =>
                    /\ photon_paths = <<>>
                    /\ \A i \in 1..Len(absorption_profile) :
                           absorption_profile[i] = RZero)
    /\ [][IF EndTrial
          THEN /\ photon_paths' = Append(photon_paths, photon.path)
               /\ photon.path[1] = photon.position
          ELSE photon_paths' = photon_paths \/ pc = "setup"]_vars
    /\ [][IterateStep =>
             \/ photon'.path = photon.path
             \/ /\ Len(photon'.path) = Len(photon.path) + 1
                /\ SubSeq(photon'.path, 1, Len(photon.path)) = photon.path]_vars

\* a run of two photons returned, the first photon having taken two steps
C9_Witness ==
    /\ pc = "done"
    /\ num_photons = 2
    /\ Len(photon_paths) = 2
    /\ Len(photon_paths[1]) >= 3

\* C10: Photon() is at the origin: position and path[0] are (0, 0, 0),
\* direction is (0, 0, 1), weight 1 and alive true.
C10_DefaultPhotonAtOrigin ==
    ret.op = "Photon" =>
        /\ ret.photon.position = Vec(0, 0, 0)
        /\ ret.photon.path = <<Vec(0, 0, 0)>>
        /\ ret.photon.direction = Vec(0, 0, 1)
        /\ ret.photon.weight = ROne
        /\ ret.photon.alive

\* C11: on a mesh with a layer (two boundaries or more), a pass through
\* the while body that takes a step moves the photon,
\* lets check_weight see the weight w the pass began with, adds
\* w * mu_a * step to the profile entry of the layer the step began in, and
\* only then makes the weight w * (1 - mu_a * step): the amount deposited
\* is the weight lost, also in the pass in which check_weight clears alive.
C11_DepositThenRescale ==
    [][(/\ IterateStep
        /\ Len(layer_boundaries) >= 2
        /\ Len(photon'.path) = Len(photon.path) + 1) =>
         \E draw \in LogDraws :
             LET i      == GreatestNotAbove(layer_boundaries, Depth(photon))
                 props  == layer_properties[i + 1]
                 step   == RDiv(draw, props.mu_s)
                 w      == photon.weight
                 amount == RMul(RMul(w, props.mu_a), step)
             IN  /\ PyLast(photon'.path) =
                        VecAdd(PyLast(photon.path),
                               VecScale(photon.direction, step))
                 /\ photon'.alive = ~RLt(w, DefaultThreshold)
                 /\ i + 1 \in DOMAIN absorption_profile
                 /\ absorption_profile' =
                        [absorption_profile EXCEPT ![i + 1] = RAdd(@, amount)]
                 /\ photon'.weight =
                        RMul(w, RSub(ROne, RMul(props.mu_a, step)))
                 /\ RSub(w, photon'.weight) = amount]_vars

\* C12: on a mesh of two boundaries or more, every pass through the while
\* body that deposits uses a layer index in 0..n-2, an entry the profile
\* has, also at a depth equal to b[n-1]: run() raises no IndexError.
C12_DepositInRange ==
    [][(/\ IterateStep
        /\ Len(layer_boundaries) >= 2
        /\ InsideMesh(layer_boundaries, Depth(photon))) =>
         /\ LayerIndexOf(layer_boundaries, Depth(photon))
                \in 0..(Len(layer_boundaries) - 2)
         /\ LayerIndexOf(layer_boundaries, Depth(photon)) + 1
                \in DOMAIN absorption_profile
         /\ pc' # "raised"
         /\ ret'.exc # "IndexError"]_vars

\* a mesh of two boundaries or more whose layers have mu_s > 0 and mu_a >= 0
\* (every step the model draws is finite and at least 1/2)
LayeredValidMesh == Len(layer_boundaries) >= 2 /\ ValidOptics

\* C13: on a mesh with two boundaries or more whose layers have mu_s > 0
\* and mu_a >= 0, for every num_photons and with every sampled step length
\* at least the smallest of LogDraws, run() terminates: once begun it never
\* stops short of returning (it is done or can take a step), every trial
\* reaches alive = false and has its path appended, and the for loop
\* reaches its end with one path per trial.
C13_RunTerminates ==
    /\ []((LayeredValidMesh /\ pc \notin {"setup", "ready"}) =>
             (pc = "done" \/ ENABLED RunStep))
    /\ (LayeredValidMesh /\ pc = "while") ~>
           (/\ pc = "for"
            /\ HasPhoton
            /\ ~photon.alive
            /\ Len(photon_paths) = trial)
    /\ (LayeredValidMesh /\ pc = "for") ~>
           (pc = "done" /\ Len(photon_paths) = num_photons)

====
